---- MODULE Spec2Model ----
(***************************************************************************)
(* AsyncioHoneypot: the Redis honeypot's protocol codec                    *)
(* (honeypots/redis/protocol.py), its command table                        *)
(* (honeypots/redis/commands/system_command.py), the per-connection        *)
(* session loop (honeypots/base/factory.py, honeypots/redis/transport.py)  *)
(* and the acceptor.                                                       *)
(*                                                                         *)
(* Bytes and text are sequences of tokens.  A token is a string; every     *)
(* token of an input is one byte (one character), a response may hold      *)
(* longer tokens for its fixed literals.  BadByte stands for a byte that   *)
(* is not valid UTF-8 (0xFF).                                              *)
(***************************************************************************)
EXTENDS Integers, Sequences, FiniteSets, TLC

CR == "\r"
LF == "\n"
SP == " "
BadByte == "xFF"
\* the one byte 0x60, which a TLA+ string cannot hold
Backtick == "x60"

\* ------------------------------------------------------------------------
\* Python built-ins used by the codec
\* ------------------------------------------------------------------------

\* one character that UTF-8 encodes in two bytes (U+00E9, bytes C3 A9)
EAcute == "xC3xA9"

\* len() of one token in bytes
TokLen(t) ==
    IF t \in {BadByte, Backtick} THEN 1 ELSE IF t = EAcute THEN 2 ELSE Len(t)

\* the bytes of b[lo..hi], summed by halves to keep the evaluation shallow
RECURSIVE ByteLenOf(_, _, _)
ByteLenOf(b, lo, hi) ==
    IF lo > hi THEN 0
    ELSE IF lo = hi THEN TokLen(b[lo])
    ELSE LET mid == (lo + hi) \div 2
         IN  ByteLenOf(b, lo, mid) + ByteLenOf(b, mid + 1, hi)

\* len(data) of a bytes value
ByteLen(b) == ByteLenOf(b, 1, Len(b))

\* seq[i:] with a 1-based first index
From(s, i) == SubSeq(s, i, Len(s))

\* bytes.startswith / str.startswith with a one-byte prefix
startswith(s, c) == Len(s) >= 1 /\ s[1] = c

\* the characters str.strip(), str.split() and int() treat as whitespace
Whitespace == {SP, CR, LF, "\t"}

RECURSIVE lstrip(_)
lstrip(s) == IF s # <<>> /\ Head(s) \in Whitespace THEN lstrip(Tail(s)) ELSE s

RECURSIVE rstrip(_)
rstrip(s) ==
    IF s # <<>> /\ s[Len(s)] \in Whitespace THEN rstrip(SubSeq(s, 1, Len(s) - 1)) ELSE s

\* str.strip()
strip(s) == rstrip(lstrip(s))

\* index of the first whitespace character of s, Len(s)+1 when there is none
RECURSIVE FirstSpace(_, _)
FirstSpace(s, i) ==
    IF i > Len(s) THEN i ELSE IF s[i] \in Whitespace THEN i ELSE FirstSpace(s, i + 1)

\* str.split(): the maximal runs of non-whitespace characters
RECURSIVE split(_)
split(s) ==
    LET t == lstrip(s)
        k == FirstSpace(t, 1)
    IN  IF t = <<>> THEN <<>>
        ELSE <<SubSeq(t, 1, k - 1)>> \o split(From(t, k))

\* index of the first CR LF pair of b at or after i, 0 when there is none
RECURSIVE FindCRLF(_, _)
FindCRLF(b, i) ==
    IF i + 1 > Len(b) THEN 0
    ELSE IF b[i] = CR /\ b[i + 1] = LF THEN i
    ELSE FindCRLF(b, i + 1)

\* data.split(b'\r\n'): never empty, the last line is what follows the last CR LF
RECURSIVE split_crlf(_)
split_crlf(b) ==
    LET k == FindCRLF(b, 1)
    IN  IF k = 0 THEN <<b>>
        ELSE <<SubSeq(b, 1, k - 1)>> \o split_crlf(From(b, k + 2))

Digits == <<"0", "1", "2", "3", "4", "5", "6", "7", "8", "9">>

IsDigit(c) == \E i \in 1..10 : Digits[i] = c

DigitVal(c) == (CHOOSE i \in 1..10 : Digits[i] = c) - 1

RECURSIVE DigitsVal(_, _)
DigitsVal(s, acc) ==
    IF s = <<>> THEN acc ELSE DigitsVal(Tail(s), 10 * acc + DigitVal(Head(s)))

\* int(b): surrounding whitespace is dropped, one optional sign, then decimal
\* digits, single underscores allowed between two digits; anything else is a
\* ValueError (ok = FALSE)
int_stripped(t) ==
    LET signed == t # <<>> /\ Head(t) \in {"-", "+"}
        d      == IF signed THEN Tail(t) ELSE t
        good   == /\ d # <<>> /\ IsDigit(d[1]) /\ IsDigit(d[Len(d)])
                  /\ \A i \in 1..Len(d) : IsDigit(d[i]) \/ d[i] = "_"
                  /\ \A i \in 1..(Len(d) - 1) : ~(d[i] = "_" /\ d[i + 1] = "_")
        n      == DigitsVal(SelectSeq(d, IsDigit), 0)
    IN  IF ~good THEN [ok |-> FALSE, val |-> 0]
        ELSE [ok |-> TRUE, val |-> IF signed /\ Head(t) = "-" THEN 0 - n ELSE n]

int(b) == int_stripped(strip(b))

RECURSIVE NatStr(_)
NatStr(n) == IF n < 10 THEN <<Digits[n + 1]>> ELSE NatStr(n \div 10) \o <<Digits[(n % 10) + 1]>>

\* f"{n}" of an integer
IntStr(n) == IF n < 0 THEN <<"-">> \o NatStr(0 - n) ELSE NatStr(n)

\* bytes.decode('utf-8'): a UnicodeDecodeError (ok = FALSE) on a byte that is
\* not valid UTF-8
decode(b) ==
    IF \E i \in 1..Len(b) : b[i] = BadByte THEN [ok |-> FALSE, val |-> <<>>]
    ELSE [ok |-> TRUE, val |-> b]

Uppers == <<"A", "B", "C", "D", "E", "F", "G", "H", "I", "J", "K", "L", "M",
            "N", "O", "P", "Q", "R", "S", "T", "U", "V", "W", "X", "Y", "Z">>
Lowers == <<"a", "b", "c", "d", "e", "f", "g", "h", "i", "j", "k", "l", "m",
            "n", "o", "p", "q", "r", "s", "t", "u", "v", "w", "x", "y", "z">>

LowerChar(c) ==
    IF \E i \in 1..26 : Uppers[i] = c
    THEN Lowers[CHOOSE i \in 1..26 : Uppers[i] = c] ELSE c

\* str.lower()
lower(s) == [i \in 1..Len(s) |-> LowerChar(s[i])]

\* items[lo..hi] with sep between them, built by halves
RECURSIVE JoinOf(_, _, _, _)
JoinOf(sep, items, lo, hi) ==
    IF lo > hi THEN <<>>
    ELSE IF lo = hi THEN items[lo]
    ELSE LET mid == (lo + hi) \div 2
         IN  JoinOf(sep, items, lo, mid) \o sep \o JoinOf(sep, items, mid + 1, hi)

\* sep.join(items)
join(sep, items) == JoinOf(sep, items, 1, Len(items))

\* ------------------------------------------------------------------------
\* RedisProtocol: decoding
\* ------------------------------------------------------------------------

\* the None a parser returns on failure; a parsed command is ok with its list
None == [ok |-> FALSE, list |-> <<>>]

Some(l) == [ok |-> TRUE, list |-> l]

\* only the first line of the chunk is taken as the command
_parse_simple_command_firstline(data) ==
    LET d == decode(split_crlf(data)[1])
        command_str == strip(d.val)
    IN  IF ~d.ok THEN None
        ELSE IF command_str = <<>> THEN None
        ELSE Some(split(command_str))

_parse_simple_command(data) ==
    LET d == decode(data)
        command_str == strip(d.val)
    IN  IF ~d.ok THEN None
        ELSE IF command_str = <<>> THEN None
        ELSE Some(split(command_str))

\* the for-loop without its comparison of len(arg_content) with arg_length
RECURSIVE array_loop_nolen(_, _, _, _)
array_loop_nolen(lines, remaining, line_idx, args) ==
    IF remaining = 0 THEN [ok |-> TRUE, list |-> args]
    ELSE IF line_idx >= Len(lines) THEN [ok |-> FALSE, list |-> <<>>]
    ELSE LET length_line == lines[line_idx + 1]
             arg_length  == int(Tail(length_line))
         IN  IF ~startswith(length_line, "$") \/ ~arg_length.ok
                  \/ line_idx + 1 >= Len(lines)
                  \/ ~decode(lines[line_idx + 2]).ok
             THEN [ok |-> FALSE, list |-> <<>>]
             ELSE array_loop_nolen(lines, remaining - 1, line_idx + 2,
                                   Append(args, lines[line_idx + 2]))

\* the for-loop of _parse_array_command: remaining elements still to read,
\* line_idx 0-based as in the code, args collected so far
RECURSIVE array_loop(_, _, _, _)
array_loop(lines, remaining, line_idx, args) ==
    IF remaining = 0 THEN Some(args)
    ELSE IF line_idx >= Len(lines) THEN None
    ELSE LET length_line == lines[line_idx + 1]
             arg_length  == int(Tail(length_line))
         IN  IF ~startswith(length_line, "$") THEN None
             ELSE IF ~arg_length.ok THEN None
             ELSE IF line_idx + 1 >= Len(lines) THEN None
             ELSE LET arg_content == lines[line_idx + 2]
                      text        == decode(arg_content)
                  IN  IF ByteLen(arg_content) # arg_length.val THEN None
                      ELSE IF ~text.ok THEN None
                      ELSE array_loop(lines, remaining - 1, line_idx + 2,
                                      Append(args, text.val))

\* _parse_array_command without "if arg_count <= 0": range() of a negative
\* count is empty and the empty list is returned
_parse_array_command_nocheck(lines) ==
    LET arg_count == int(Tail(lines[1]))
    IN  IF ~arg_count.ok THEN None
        ELSE IF arg_count.val <= 0 THEN Some(<<>>)
        ELSE array_loop(lines, arg_count.val, 1, <<>>)

_parse_array_command(lines) ==
    IF Len(lines) < 1 THEN None
    ELSE LET arg_count_line == lines[1]
             arg_count      == int(Tail(arg_count_line))
         IN  IF ~startswith(arg_count_line, "*") THEN None
             ELSE IF ~arg_count.ok THEN None
             ELSE IF arg_count.val <= 0 THEN None
             ELSE array_loop(lines, arg_count.val, 1, <<>>)

parse_command(data) ==
    LET lines == split_crlf(data)
    IN  IF lines = <<>> \/ ~startswith(lines[1], "*")
        THEN _parse_simple_command(data)
        ELSE _parse_array_command(lines)

\* ------------------------------------------------------------------------
\* RedisProtocol: encoding
\* ------------------------------------------------------------------------

format_simple_string(message) == <<"+">> \o message \o <<CR, LF>>

format_error(error_type, message) ==
    <<"-">> \o error_type \o <<SP>> \o message \o <<CR, LF>>

format_integer(value) == <<":">> \o IntStr(value) \o <<CR, LF>>

\* data is text; format_bulk_string(None) is NullBulk
NullBulk == <<"$", "-", "1", CR, LF>>

\* the length prefix counts characters, not bytes
format_bulk_string_chars(data) ==
    <<"$">> \o IntStr(Len(data)) \o <<CR, LF>> \o data \o <<CR, LF>>

format_bulk_string(data) ==
    <<"$">> \o IntStr(ByteLen(data)) \o <<CR, LF>> \o data \o <<CR, LF>>

\* the objects format_array is handed: a str, an int, None, or another
\* object, here a list of such objects
StrItem(s) == [t |-> "str", s |-> s, n |-> 0, l |-> <<>>]
IntItem(n) == [t |-> "int", s |-> <<>>, n |-> n, l |-> <<>>]
NoneItem == [t |-> "none", s |-> <<>>, n |-> 0, l |-> <<>>]
ListItem(l) == [t |-> "list", s |-> <<>>, n |-> 0, l |-> l]

\* a list of str
StrList(texts) == ListItem([i \in 1..Len(texts) |-> StrItem(texts[i])])

\* str(item) of a list: '[' repr(x), ', ' ... ']'. repr of a str is the text
\* between single quotes when the text holds no quote, backslash or control
\* character, which is so for every text put in a nested list here.
RECURSIVE repr(_)
RECURSIVE repr_items(_)
repr(item) ==
    CASE item.t = "str" -> <<"'">> \o item.s \o <<"'">>
      [] item.t = "int" -> IntStr(item.n)
      [] item.t = "none" -> <<"N", "o", "n", "e">>
      [] OTHER -> <<"[">> \o repr_items(item.l) \o <<"]">>

repr_items(l) ==
    IF l = <<>> THEN <<>>
    ELSE IF Len(l) = 1 THEN repr(l[1])
    ELSE repr(l[1]) \o <<",", SP>> \o repr_items(Tail(l))

\* one turn of the for loop: the isinstance chain
format_item(item) ==
    CASE item.t = "str" -> format_bulk_string(item.s)
      [] item.t = "int" -> format_integer(item.n)
      [] item.t = "none" -> NullBulk
      [] OTHER -> format_bulk_string(repr(item))

RECURSIVE format_items(_)
format_items(items) ==
    IF items = <<>> THEN <<>>
    ELSE format_item(Head(items)) \o format_items(Tail(items))

NullArray == <<"*", "-", "1", CR, LF>>

\* items is None (NoneItem) or a list (ListItem)
format_array(items) ==
    IF items.t = "none" THEN NullArray
    ELSE <<"*">> \o IntStr(Len(items.l)) \o <<CR, LF>> \o format_items(items.l)

\* ------------------------------------------------------------------------
\* Commands (honeypots/redis/commands/system_command.py)
\* ------------------------------------------------------------------------

\* what a handler passes to send_data: a str or a bytes object
Str(data) == [kind |-> "str", data |-> data]

Bytes(data) == [kind |-> "bytes", data |-> data]

\* The handlers are built with a protocol facade bound to the session
\* (RedisProtocol(transport)) and write through its send_data.  protocol.py
\* holds the codec only: neither that constructor nor send_data is in it.
\* The facade is taken to be what the design says of it: it is constructed,
\* and send_data has the response its caller gives it, a str encoded to
\* bytes, written by the transport's write_data.  The result is the list of
\* write_data calls made.
send_data(payload) == <<Bytes(payload.data)>>

\* ERROR_ARGUMENT.format(name): a str, not bytes
ERROR_ARGUMENT(name) ==
    Str(<<"-", "ERR wrong number of arguments for '">> \o name \o <<"' command", CR, LF>>)

AuthNoPassword ==
    <<"-", "ERR AUTH <username> called without any password configured for the user, or for the default user. Are you sure your configuration is correct?">>

\* truthiness of an Optional[str]: None and "" are false
truthy(present, text) == present /\ text # <<>>

\* what line 14 logs, reached with one or two arguments only: the username
\* (None with one argument) and the password
NoUser == [present |-> FALSE, text |-> <<>>]

User(text) == [present |-> TRUE, text |-> text]

CommandAuth_logged(args) ==
    IF Len(args) = 1 THEN <<[username |-> NoUser, password |-> args[1]]>>
    ELSE IF Len(args) = 2 THEN <<[username |-> User(args[1]), password |-> args[2]]>>
    ELSE <<>>

\* CommandAuth without its check of the number of arguments
CommandAuth_noarity(args) == send_data(Bytes(AuthNoPassword))

\* CommandAuth accepting a password that is not empty
CommandAuth_ok(args) ==
    IF Len(args) \in {1, 2} /\ args[Len(args)] # <<>>
    THEN send_data(Bytes(format_simple_string(<<"O", "K">>)))
    ELSE send_data(ERROR_ARGUMENT(<<"auth">>))

CommandAuth(args) ==
    IF Len(args) \notin {1, 2} THEN send_data(ERROR_ARGUMENT(<<"auth">>))
    ELSE LET hasUser  == Len(args) = 2
             username == IF hasUser THEN args[1] ELSE <<>>
             password == args[Len(args)]
         IN  IF truthy(hasUser, username) \/ truthy(TRUE, password)
             THEN send_data(Bytes(AuthNoPassword))
             ELSE <<>>

InfoLines ==
    <<"# Server", "redis_version:6.2.6", "redis_git_sha1:00000000",
      "redis_git_dirty:0", "redis_build_id:0", "redis_mode:standalone",
      "os:Linux 4.15.0-1043-aws x86_64", "arch_bits:64",
      "multiplexing_api:epoll", "atomicvar_api:atomic-builtin",
      "gcc_version:7.5.0", "process_id:1", "run_id:random_run_id",
      "tcp_port:6379", "uptime_in_seconds:3600", "uptime_in_days:0",
      "hz:10", "configured_hz:10", "lru_clock:123456",
      "executable:/usr/local/bin/redis-server", "config_file:", "",
      "# Clients", "connected_clients:1",
      "client_recent_max_input_buffer:2",
      "client_recent_max_output_buffer:0", "blocked_clients:0", "",
      "# Memory", "used_memory:1048576", "used_memory_human:1.00M",
      "used_memory_rss:2097152", "used_memory_rss_human:2.00M",
      "used_memory_peak:1048576", "used_memory_peak_human:1.00M", "",
      "# Stats", "total_connections_received:1",
      "total_commands_processed:1", "instantaneous_ops_per_sec:0",
      "total_net_input_bytes:14", "total_net_output_bytes:0",
      "instantaneous_input_kbps:0.00", "instantaneous_output_kbps:0.00",
      "rejected_connections:0", "sync_full:0", "sync_partial_ok:0",
      "sync_partial_err:0", "expired_keys:0", "evicted_keys:0",
      "keyspace_hits:0", "keyspace_misses:0", "pubsub_channels:0",
      "pubsub_patterns:0", "latest_fork_usec:0",
      "migrate_cached_sockets:0", "slave_expires_tracked_keys:0",
      "active_defrag_hits:0", "active_defrag_misses:0",
      "active_defrag_key_hits:0", "active_defrag_key_misses:0">>

\* "\r\n".join(info)
info_string ==
    join(<<CR, LF>>,
         [i \in 1..Len(InfoLines) |->
            IF InfoLines[i] = "" THEN <<>> ELSE <<InfoLines[i]>>])

CommandInfo(args) == send_data(Bytes(format_bulk_string(info_string)))

CommandPing(args) == send_data(Bytes(format_simple_string(<<"P", "O", "N", "G">>)))

setname == <<"s", "e", "t", "n", "a", "m", "e">>

CommandClient(args) ==
    IF Len(args) = 0 THEN send_data(ERROR_ARGUMENT(<<"client">>))
    ELSE IF lower(args[1]) = setname
         THEN IF (Len(args) - 1) % 2 # 0
              THEN send_data(ERROR_ARGUMENT(<<"client">>))
              ELSE send_data(Bytes(format_simple_string(<<"O", "K">>)))
         ELSE send_data(Bytes(format_simple_string(<<"O", "K">>)))

\* the keys of the command table
commands ==
    {<<"a", "u", "t", "h">>, <<"i", "n", "f", "o">>, <<"p", "i", "n", "g">>,
     <<"c", "l", "i", "e", "n", "t">>}

\* command_class(self.protocol, args).execute()
execute(command, args) ==
    CASE command = <<"a", "u", "t", "h">> -> CommandAuth(args)
      [] command = <<"i", "n", "f", "o">> -> CommandInfo(args)
      [] command = <<"p", "i", "n", "g">> -> CommandPing(args)
      [] OTHER                            -> CommandClient(args)

\* the reply to a command that is not in the table, without its arguments
unknown_command_noargs(command, args) ==
    format_error(<<"ERR">>,
                 <<"unknown command ", Backtick>> \o command
                   \o <<Backtick, ", with args beginning with:">>)

\* the reply of process_data to a command that is not in the table
unknown_command(command, args) ==
    format_error(<<"ERR">>,
                 <<"unknown command ", Backtick>> \o command
                   \o <<Backtick, ", with args beginning with:">>
                   \o (IF args # <<>>
                       THEN <<Backtick>> \o join(<<SP>>, args) \o <<Backtick>>
                       ELSE <<>>))

\* the authentication lines a handler logs
logged(command, args) ==
    IF command = <<"a", "u", "t", "h">> THEN CommandAuth_logged(args) ELSE <<>>

\* no handler was looked up
NoHandler == [known |-> FALSE, command |-> <<>>]

\* the lookup of process_data with the name as it was received
dispatch_exact(command_list) ==
    [known |-> command_list[1] \in commands, command |-> command_list[1],
     args |-> Tail(command_list)]

\* the lookup of process_data: the name lower-cased and looked up in the
\* table, the arguments as they were parsed
dispatch(command_list) ==
    LET command == lower(command_list[1])
    IN  [known |-> command \in commands, command |-> command,
         args |-> Tail(command_list)]

\* RedisTransport.process_data up to its writes: fault when an exception
\* leaves it (command_list[0] of None is a TypeError, which the handler for
\* IndexError does not catch; of an empty list an IndexError, raised again
\* inside that handler), else the handler it chose, the arguments it gave
\* it, what the handler logged and the write_data calls made
process_command(d) ==
    LET h == [known |-> d.known, command |-> d.command]
    IN  IF ~d.known
        THEN [fault |-> FALSE,
              sends |-> <<Bytes(unknown_command(d.command, d.args))>>,
              handler |-> h, args |-> d.args, authlog |-> <<>>]
        ELSE [fault |-> FALSE,
              sends |-> execute(d.command, d.args),
              handler |-> h, args |-> d.args,
              authlog |-> logged(d.command, d.args)]

process_parsed(command_list) ==
    IF ~command_list.ok \/ command_list.list = <<>>
    THEN [fault |-> TRUE, sends |-> <<>>, handler |-> NoHandler,
          args |-> <<>>, authlog |-> <<>>]
    ELSE process_command(dispatch(command_list.list))

process_data(data) == process_parsed(parse_command(data))

\* ------------------------------------------------------------------------
\* Bounds and inputs
\* ------------------------------------------------------------------------

\* connections the acceptor is offered
MaxSessions == 2
\* arguments of a command drawn for the codec, and the length of each
MaxArgs == 2
MaxArgLen == 2

\* reader.read(1024)
ReadSize == 1024

Sessions == 1..MaxSessions

CRLF == <<CR, LF>>
PING == <<"P", "I", "N", "G">>
AUTH == <<"A", "U", "T", "H">>

\* *1 $4 PING
PingFrame == <<"*", "1">> \o CRLF \o <<"$", "4">> \o CRLF \o PING \o CRLF
\* *2 $4 AUTH $0 "": AUTH with an empty password
AuthEmptyFrame ==
    <<"*", "2">> \o CRLF \o <<"$", "4">> \o CRLF \o AUTH \o CRLF \o <<"$", "0">> \o CRLF \o CRLF
\* *3 declared, one element sent
TruncFrame == <<"*", "3">> \o CRLF \o <<"$", "3">> \o CRLF \o <<"f", "o", "o">> \o CRLF
\* the frame TruncFrame is the beginning of
FullFrame == TruncFrame \o <<"$", "1">> \o CRLF \o <<"a">> \o CRLF \o <<"$", "1">> \o CRLF \o <<"b">> \o CRLF

\* GET k, inline: a command that is not in the table
GetInline == <<"G", "E", "T", SP, "k">> \o CRLF

\* the chunks the peers of the concurrent sessions send
CoreChunks == {PingFrame, AuthEmptyFrame, TruncFrame, GetInline}

\* where the bytes of PingFrame are cut into two chunks
SplitAt == {4, 10, 12}

InlineChunks ==
    { PING \o CRLF,
      AUTH \o CRLF,
      AUTH \o <<SP, "x">> \o CRLF,
      GetInline,
      <<"I", "N", "F", "O">> \o CRLF,
      <<"c", "l", "i", "e", "n", "t">> \o CRLF,
      CRLF,
      <<SP, SP>>,
      <<"P", BadByte>> \o CRLF }

BadFrames ==
    { <<"*", "-", "1">> \o CRLF,
      <<"*", "x">> \o CRLF,
      <<"*", "1">> \o CRLF \o <<"+", "4">> \o CRLF \o PING \o CRLF,
      <<"*", "1">> \o CRLF \o <<"$", "3">> \o CRLF \o PING \o CRLF,
      <<"*", "1">> \o CRLF \o <<"$", "1">> \o CRLF \o <<BadByte>> \o CRLF,
      TruncFrame }

SplitChunks ==
    {SubSeq(PingFrame, 1, k) : k \in SplitAt}
        \cup {From(PingFrame, k + 1) : k \in SplitAt}

\* the chunks the peer of a single session sends
WireChunks == InlineChunks \cup BadFrames \cup SplitChunks \cup {PingFrame, AuthEmptyFrame}

\* Commands a peer sends, as lists of texts
SELECT == <<"S", "E", "L", "E", "C", "T">>
FOOBAR == <<"F", "O", "O", "B", "A", "R">>

\* AUTH with 0..MaxAuthArgs arguments, each empty or not
MaxAuthArgs == 3
Creds == {<<>>, <<"x">>, <<"Y">>}
AuthCmds == {<<AUTH>> \o a : a \in UNION {[1..k -> Creds] : k \in 0..MaxAuthArgs}}

PingTexts == {<<>>, <<"h", "i">>, <<"h", "e", "l", "l", "o">>, <<"a", SP>>}
PingCmds == {<<PING>>} \cup {<<PING, x>> : x \in PingTexts}

\* SELECT n: indexes in 0..15, outside it, and texts that are no integer
SelectIn == {<<"0">>, <<"3">>, <<"1", "5">>}
SelectOut == {<<"1", "6">>, <<"-", "1">>}
SelectNaN == {<<"a", "b", "c">>, <<>>}
SelectCmds == {<<SELECT, n>> : n \in SelectIn \cup SelectOut \cup SelectNaN}

\* a name as it is sent, with the lower-case name it is a variant of
CaseNames ==
    { [sent |-> PING, name |-> <<"p", "i", "n", "g">>],
      [sent |-> <<"p", "i", "n", "g">>, name |-> <<"p", "i", "n", "g">>],
      [sent |-> <<"P", "i", "N", "g">>, name |-> <<"p", "i", "n", "g">>],
      [sent |-> <<"a", "U", "t", "H">>, name |-> <<"a", "u", "t", "h">>],
      [sent |-> <<"a", "u", "t", "h">>, name |-> <<"a", "u", "t", "h">>],
      [sent |-> <<"I", "n", "f", "o">>, name |-> <<"i", "n", "f", "o">>],
      [sent |-> <<"C", "L", "I", "E", "N", "T">>, name |-> <<"c", "l", "i", "e", "n", "t">>],
      [sent |-> <<"G", "E", "T">>, name |-> <<"g", "e", "t">>],
      [sent |-> <<"g", "E", "t">>, name |-> <<"g", "e", "t">>],
      [sent |-> <<"g", "e", "t">>, name |-> <<"g", "e", "t">>],
      [sent |-> FOOBAR, name |-> <<"f", "o", "o", "b", "a", "r">>] }

CaseArgs == {<<>>, <<<<"A", "b">>>>, <<<<"X">>, <<"y">>>>, <<<<"x">>, <<"y">>, <<"Z">>>>}

CaseCmds == {<<v.sent>> \o a : v \in CaseNames, a \in CaseArgs}

\* CLIENT alone, and CLIENT with a sub-command and 0..MaxClientArgs tokens
\* after it
CLIENT == <<"C", "L", "I", "E", "N", "T">>
MaxClientArgs == 3
SetnameSpellings ==
    {<<"s", "e", "t", "n", "a", "m", "e">>, <<"S", "e", "t", "N", "a", "m", "e">>,
     <<"S", "E", "T", "N", "A", "M", "E">>}
OtherSubCommands == {<<"l", "i", "s", "t">>, <<"G", "E", "T", "N", "A", "M", "E">>}
ClientCmds ==
    {<<CLIENT>>}
        \cup {<<CLIENT, sub>> \o [i \in 1..k |-> <<"k">>] :
                 sub \in SetnameSpellings \cup OtherSubCommands, k \in 0..MaxClientArgs}

CmdSet == AuthCmds \cup PingCmds \cup SelectCmds \cup CaseCmds \cup ClientCmds

\* a command typed as a line: its texts with one space between them
Inline(c) == join(<<SP>>, c) \o CRLF

\* the forms a command is sent in: multi-bulk, and inline when no text of it
\* is empty or holds whitespace
Encodings(c) ==
    {format_array(StrList(c))}
        \cup (IF \A i \in 1..Len(c) :
                   c[i] # <<>> /\ \A j \in 1..Len(c[i]) : c[i][j] \notin Whitespace
               THEN {Inline(c)} ELSE {})

CmdChunks == UNION {Encodings(c) : c \in CmdSet}

\* the chunks of an input set
\* two commands in one chunk, each of them multi-bulk or inline
PipeCmds == {<<PING>>, <<PING, <<"h", "i">>>>, <<<<"G", "E", "T">>, <<"k">>>>}
Forms == {"bulk", "inline"}
PipeCases == [c1 : PipeCmds, f1 : Forms, c2 : PipeCmds, f2 : Forms]
FormOf(c, f) == IF f = "bulk" THEN format_array(StrList(c)) ELSE Inline(c)
PipeBytes(p) == FormOf(p.c1, p.f1) \o FormOf(p.c2, p.f2)
PipeChunks == {PipeBytes(p) : p \in PipeCases}

ChunksOf(name) ==
    CASE name = "core" -> CoreChunks
      [] name = "wire" -> WireChunks
      [] name = "cmds" -> CmdChunks
      [] name = "pipe" -> PipeChunks
      [] OTHER         -> {}

\* Multi-bulk frames as a peer builds them: a count line and elements, each
\* well formed or wrong in one way
MaxElems == 2
MaxPayload == 2

\* "prefix": the length line starts with + ; "longer" / "shorter": the declared
\* length is one more / one less than the payload; "utf8": the payload ends
\* in a byte that is not UTF-8
\* "null" is the element $-1 CRLF, which has no payload line
Faults == {"none", "prefix", "longer", "shorter", "utf8", "null"}

Elems ==
    {e \in [len : 0..MaxPayload, fault : Faults] :
        /\ e.fault = "shorter" => e.len > 0
        /\ e.fault = "null" => e.len = 0}

PayloadOf(e) ==
    [i \in 1..e.len |-> "a"] \o (IF e.fault = "utf8" THEN <<BadByte>> ELSE <<>>)

DeclaredOf(e) ==
    ByteLen(PayloadOf(e))
        + (IF e.fault = "longer" THEN 1 ELSE IF e.fault = "shorter" THEN 0 - 1 ELSE 0)

ElemBytes(e) ==
    IF e.fault = "null" THEN <<"$", "-", "1">> \o CRLF
    ELSE <<IF e.fault = "prefix" THEN "+" ELSE "$">> \o IntStr(DeclaredOf(e)) \o CRLF
             \o PayloadOf(e) \o CRLF

RECURSIVE ElemsBytes(_)
ElemsBytes(es) == IF es = <<>> THEN <<>> ELSE ElemBytes(Head(es)) \o ElemsBytes(Tail(es))

\* the count lines: a positive count n, zero, negative counts, and texts
\* that are no integer
Counts ==
    {[text |-> IntStr(n), kind |-> "good", n |-> n] : n \in 1..(MaxElems + 1)}
    \cup {[text |-> <<"0">>, kind |-> "zero", n |-> 0]}
    \cup {[text |-> IntStr(0 - n), kind |-> "negative", n |-> 0 - n] : n \in 1..2}
    \cup {[text |-> t, kind |-> "nonnumeric", n |-> 0] :
             t \in {<<>>, <<"x">>, <<"1", "x">>, <<"-">>, <<"1", ".", "0">>, <<"_", "1">>}}

FrameInputs ==
    {[count |-> c, elems |-> es] :
        c \in Counts, es \in UNION {[1..k -> Elems] : k \in 0..MaxElems}}

FrameBytes(f) == <<"*">> \o f.count.text \o CRLF \o ElemsBytes(f.elems)

\* the bytes the decoder is given: every string of up to MaxBytes bytes over
\* ByteChars, and the bytes of every frame of FrameInputs
MaxBytes == 4
ByteChars == {"*", "0", "1", "-", CR, LF, SP, "a", BadByte}
ByteStrings == UNION {[1..k -> ByteChars] : k \in 0..MaxBytes}
FrameWires == {FrameBytes(f) : f \in FrameInputs}

\* the commands the codec is given to encode
ArgChars == {"a", SP, CR, LF}
Texts == UNION {[1..k -> ArgChars] : k \in 0..MaxArgLen}
ArgLists == UNION {[1..k -> Texts] : k \in 0..MaxArgs}
Names == {<<"G", "E", "T">>, <<"p">>}
Commands == {<<n>> \o a : n \in Names, a \in ArgLists}

\* the values the encoders are given: the function called (fn), the error
\* type of format_error (kind) and the value encoded (v)
MaxItems == 2
EncChars == {"a", SP, EAcute}
LongText == <<"h", "e", "l", "l", "o", SP, "w", "o", "r", "l", "d", EAcute>>
EncTexts == UNION {[1..k -> EncChars] : k \in 0..MaxArgLen} \cup {LongText}
ErrorKinds == {<<"E", "R", "R">>, <<"W", "R", "O", "N", "G", "T", "Y", "P", "E">>}
\* integers with the decimal text Python prints for them
IntCases ==
    {[n |-> 0 - 12, text |-> <<"-", "1", "2">>], [n |-> 0 - 1, text |-> <<"-", "1">>],
     [n |-> 0, text |-> <<"0">>], [n |-> 7, text |-> <<"7">>],
     [n |-> 10, text |-> <<"1", "0">>], [n |-> 305, text |-> <<"3", "0", "5">>]}
NestedLists ==
    {<<>>, <<StrItem(<<"a">>)>>, <<IntItem(7), NoneItem>>,
     <<ListItem(<<StrItem(<<"a">>)>>), StrItem(<<"a">>)>>}
Atoms ==
    {StrItem(t) : t \in {<<>>, <<"a">>, <<EAcute, "a">>}}
        \cup {IntItem(c.n) : c \in IntCases} \cup {NoneItem}
Items == Atoms \cup {ListItem(l) : l \in NestedLists}
Arrays == {NoneItem} \cup {ListItem(l) : l \in UNION {[1..k -> Items] : k \in 0..MaxItems}}
Responses ==
    {[fn |-> "simple_string", kind |-> <<>>, v |-> StrItem(t)] : t \in EncTexts}
        \cup {[fn |-> "error", kind |-> k, v |-> StrItem(t)] : k \in ErrorKinds, t \in EncTexts}
        \cup {[fn |-> "integer", kind |-> <<>>, v |-> IntItem(c.n)] : c \in IntCases}
        \cup {[fn |-> "bulk_string", kind |-> <<>>, v |-> StrItem(t)] : t \in EncTexts}
        \cup {[fn |-> "bulk_string", kind |-> <<>>, v |-> NoneItem]}
        \cup {[fn |-> "array", kind |-> <<>>, v |-> a] : a \in Arrays}

\* ------------------------------------------------------------------------
\* State
\* ------------------------------------------------------------------------

VARIABLES
    server,   \* BaseFactory.server: "none" until start(), then "serving"
    stopped,  \* stop() has returned
    sess,     \* per connection: the connect() task and its transport
    peers,    \* the connections that arrive
    inputs,   \* which chunks their peers send: "core", "wire", "cmds" or "none"
    step,     \* codec: "idle", or how far the command has travelled
    cmd,      \* codec: the command, a list of texts
    wire,     \* codec: its multi-bulk encoding
    decoded   \* codec: what parse_command made of it

vars == <<server, stopped, sess, peers, inputs, step, cmd, wire, decoded>>

codecVars == <<step, cmd, wire, decoded>>

\* pc: where connect() is ("idle" not accepted yet, "read" in reader.read,
\* "drain" in writer.drain, "done" returned); closed: writer.close() was
\* called; lost: "Connection lost" events logged; pending: responses written
\* and not drained; chunk: the last chunk read; reply: what was handed to
\* writer.write for it; handler, args, authlog: the handler process_data
\* chose for it, the arguments it was given and what it logged; exitBy: why
\* the loop ended; raised: an exception left connect(); broken: a drain
\* failed, the connection is lost
NewSession ==
    [pc |-> "idle", closed |-> FALSE, lost |-> 0, pending |-> 0, chunk |-> <<>>,
     reply |-> <<>>, handler |-> NoHandler, args |-> <<>>, authlog |-> <<>>,
     exitBy |-> "none", raised |-> FALSE, broken |-> FALSE]

\* ------------------------------------------------------------------------
\* BaseTransport / RedisTransport
\* ------------------------------------------------------------------------

close(r) == [r EXCEPT !.closed = TRUE]

connection_lost(r) == close([r EXCEPT !.lost = @ + 1])

\* write_data up to its await: writer.write of a str raises a TypeError,
\* which write_data catches, logs and answers False, nothing being written;
\* bytes are buffered (dropped when the connection is already lost) and the
\* task waits in drain
write_data_nodrain(r, payload) ==
    IF payload.kind # "bytes" THEN [r EXCEPT !.pc = "read"]
    ELSE [r EXCEPT !.reply = payload.data, !.pending = @ + 1, !.pc = "read"]

write_data(r, payload) ==
    IF payload.kind # "bytes" THEN [r EXCEPT !.pc = "read"]
    ELSE [r EXCEPT !.reply = payload.data,
                   !.pending = IF r.broken THEN @ ELSE @ + 1,
                   !.pc = "drain"]

\* drain returned: write_data answers True and the loop reads again
drained(r) == [r EXCEPT !.pending = 0, !.pc = "read"]

\* drain raised: write_data catches the exception, logs it and answers False,
\* which no caller looks at; the lost connection has dropped its buffer
drain_failed(r) == [r EXCEPT !.pending = 0, !.broken = TRUE, !.pc = "read"]

\* data_received -> process_data; pc "raise" marks an exception on its way
\* to connect()
processed(r, data, out) ==
    LET r1 == [r EXCEPT !.chunk = data, !.reply = <<>>, !.handler = out.handler,
                        !.args = out.args, !.authlog = out.authlog]
    IN  IF out.fault THEN [r1 EXCEPT !.pc = "raise"]
        ELSE IF out.sends = <<>> THEN r1
        ELSE write_data(r1, Head(out.sends))

data_received(r, data) == processed(r, data, process_data(data))

\* ------------------------------------------------------------------------
\* BaseFactory.connect
\* ------------------------------------------------------------------------

\* RedisTransport(self, reader, writer), logged; connect() then enters its loop
build_transport(r) == [r EXCEPT !.pc = "read"]

\* the body of the while loop on b'' without its break
connect_eof_nobreak(r) == [connection_lost(r) EXCEPT !.exitBy = "eof"]

\* if not data: await transport.connection_lost(); break
\* the loop left on b'' without connection_lost
connect_eof_noclose(r) == [r EXCEPT !.pc = "done", !.exitBy = "eof"]

connect_eof(r) == [connection_lost(r) EXCEPT !.pc = "done", !.exitBy = "eof"]

\* connect() without its except Exception clause
connect_uncaught(r, why) == [r EXCEPT !.pc = "done", !.exitBy = why, !.raised = TRUE]

\* except Exception as e: await transport.connection_lost(e)
connect_except(r, why) == [connection_lost(r) EXCEPT !.pc = "done", !.exitBy = why]

\* except asyncio.CancelledError: pass
connect_cancelled(r) == [r EXCEPT !.pc = "done", !.exitBy = "cancel"]

\* the try of connect() around data_received: an exception goes to the
\* except clause
connect_try(r2) == IF r2.pc = "raise" THEN connect_except(r2, "fault") ELSE r2

\* one turn of the loop on a chunk
connect_data(r, data) == connect_try(data_received(r, data))

\* the server after stop(): its body is a docstring
stop(srv) == srv

\* ------------------------------------------------------------------------
\* Actions
\* ------------------------------------------------------------------------

Idle == step = "idle" /\ UNCHANGED <<peers, inputs, codecVars>>

\* start(): asyncio.start_server(self.connect, host, port), serve_forever
Start ==
    /\ Idle /\ server = "none"
    /\ server' = "serving"
    /\ UNCHANGED <<stopped, sess>>

Stop ==
    /\ Idle /\ server = "serving" /\ ~stopped
    /\ server' = stop(server)
    /\ stopped' = TRUE
    /\ UNCHANGED sess

\* the listener accepts connection s and starts connect() for it
Accept(s) ==
    /\ Idle /\ server = "serving" /\ s \in peers
    /\ sess[s].pc = "idle"
    /\ \A t \in 1..(s - 1) : sess[t].pc # "idle"
    /\ sess' = [sess EXCEPT ![s] = build_transport(@)]
    /\ UNCHANGED <<server, stopped>>

\* reader.read returns a chunk
Read(s) ==
    /\ Idle /\ sess[s].pc = "read"
    /\ \E data \in ChunksOf(inputs) :
         /\ ByteLen(data) <= ReadSize
         /\ sess' = [sess EXCEPT ![s] = connect_data(@, data)]
    /\ UNCHANGED <<server, stopped>>

\* reader.read returns b'': the peer closed
ReadEOF(s) ==
    /\ Idle /\ sess[s].pc = "read"
    /\ sess' = [sess EXCEPT ![s] = connect_eof(@)]
    /\ UNCHANGED <<server, stopped>>

\* reader.read raises
ReadError(s) ==
    /\ Idle /\ sess[s].pc = "read"
    /\ sess' = [sess EXCEPT ![s] = connect_except(@, "read_error")]
    /\ UNCHANGED <<server, stopped>>

DrainOk(s) ==
    /\ Idle /\ sess[s].pc = "drain" /\ ~sess[s].broken
    /\ sess' = [sess EXCEPT ![s] = drained(@)]
    /\ UNCHANGED <<server, stopped>>

DrainFail(s) ==
    /\ Idle /\ sess[s].pc = "drain"
    /\ sess' = [sess EXCEPT ![s] = drain_failed(@)]
    /\ UNCHANGED <<server, stopped>>

\* the task is cancelled while it waits in read or in drain
Cancel(s) ==
    /\ Idle /\ sess[s].pc \in {"read", "drain"}
    /\ sess' = [sess EXCEPT ![s] = connect_cancelled(@)]
    /\ UNCHANGED <<server, stopped>>

\* codec: format_array(cmd)
Encode ==
    /\ step = "cmd"
    /\ wire' = format_array(StrList(cmd))
    /\ step' = "wire"
    /\ UNCHANGED <<server, stopped, sess, peers, inputs, cmd, decoded>>

\* codec: the encoders, each applied to the values it is given
FormatSimpleString ==
    /\ step = "resp" /\ cmd.fn = "simple_string"
    /\ wire' = format_simple_string(cmd.v.s)
    /\ step' = "formatted"
    /\ UNCHANGED <<server, stopped, sess, peers, inputs, cmd, decoded>>

FormatError ==
    /\ step = "resp" /\ cmd.fn = "error"
    /\ wire' = format_error(cmd.kind, cmd.v.s)
    /\ step' = "formatted"
    /\ UNCHANGED <<server, stopped, sess, peers, inputs, cmd, decoded>>

FormatInteger ==
    /\ step = "resp" /\ cmd.fn = "integer"
    /\ wire' = format_integer(cmd.v.n)
    /\ step' = "formatted"
    /\ UNCHANGED <<server, stopped, sess, peers, inputs, cmd, decoded>>

FormatBulkString ==
    /\ step = "resp" /\ cmd.fn = "bulk_string"
    /\ wire' = IF cmd.v.t = "none" THEN NullBulk ELSE format_bulk_string(cmd.v.s)
    /\ step' = "formatted"
    /\ UNCHANGED <<server, stopped, sess, peers, inputs, cmd, decoded>>

FormatArray ==
    /\ step = "resp" /\ cmd.fn = "array"
    /\ wire' = format_array(cmd.v)
    /\ step' = "formatted"
    /\ UNCHANGED <<server, stopped, sess, peers, inputs, cmd, decoded>>

\* codec: parse_command(wire)
Decode ==
    /\ step = "wire"
    /\ decoded' = parse_command(wire)
    /\ step' = "decoded"
    /\ UNCHANGED <<server, stopped, sess, peers, inputs, cmd, wire>>

\* ------------------------------------------------------------------------
\* Specifications
\* ------------------------------------------------------------------------

InitServer ==
    /\ server = "none" /\ stopped = FALSE
    /\ sess = [s \in Sessions |-> NewSession]

NoCodec == step = "idle" /\ cmd = <<>> /\ wire = <<>> /\ decoded = None

\* concurrent sessions
Init == InitServer /\ NoCodec /\ peers = Sessions /\ inputs = "core"

\* one session, every kind of chunk
InitWire == InitServer /\ NoCodec /\ peers = {1} /\ inputs = "wire"

\* the codec alone, on every command within the bounds
InitCodec ==
    /\ InitServer /\ peers = {} /\ inputs = "none"
    /\ step = "cmd" /\ cmd \in Commands /\ wire = <<>> /\ decoded = None

\* one session, commands of every handler
InitCmd == InitServer /\ NoCodec /\ peers = {1} /\ inputs = "cmds"

\* the decoder alone, on every frame of FrameInputs
InitFrame ==
    /\ InitServer /\ peers = {} /\ inputs = "none"
    /\ step = "wire" /\ cmd \in FrameInputs /\ wire = FrameBytes(cmd) /\ decoded = None

SessionNext ==
    \/ Start
    \/ Stop
    \/ \E s \in Sessions : Accept(s)
    \/ \E s \in Sessions : Read(s)
    \/ \E s \in Sessions : ReadEOF(s)
    \/ \E s \in Sessions : ReadError(s)
    \/ \E s \in Sessions : DrainOk(s)
    \/ \E s \in Sessions : DrainFail(s)
    \/ \E s \in Sessions : Cancel(s)

CodecNext == Encode \/ Decode

Next == SessionNext

Spec == Init /\ [][Next]_vars

SpecWire == InitWire /\ [][SessionNext]_vars

SpecCodec == InitCodec /\ [][CodecNext]_vars

SpecCmd == InitCmd /\ [][SessionNext]_vars

\* one session, chunks that hold two commands
InitPipe == InitServer /\ NoCodec /\ peers = {1} /\ inputs = "pipe"

SpecPipe == InitPipe /\ [][SessionNext]_vars

FrameNext == Decode

SpecFrame == InitFrame /\ [][FrameNext]_vars

\* one session whose peer closes in the end and whose writes drain: a read
\* that can return b'' again and again does so at some time, and an awaited
\* drain returns or raises
Fairness ==
    \A s \in Sessions :
        /\ SF_vars(ReadEOF(s))
        /\ WF_vars(DrainOk(s) \/ DrainFail(s))

SpecLive == InitWire /\ [][SessionNext]_vars /\ Fairness

\* the decoder alone, on byte strings
InitBytes ==
    /\ InitServer /\ peers = {} /\ inputs = "none"
    /\ step = "wire" /\ cmd = <<>> /\ wire \in ByteStrings \cup FrameWires
    /\ decoded = None

SpecBytes == InitBytes /\ [][FrameNext]_vars

\* the encoders alone, on every value of Responses
InitEnc ==
    /\ InitServer /\ peers = {} /\ inputs = "none"
    /\ step = "resp" /\ cmd \in Responses /\ wire = <<>> /\ decoded = None

EncNext ==
    \/ FormatSimpleString
    \/ FormatError
    \/ FormatInteger
    \/ FormatBulkString
    \/ FormatArray

SpecEnc == InitEnc /\ [][EncNext]_vars

\* ------------------------------------------------------------------------
\* Claims
\* ------------------------------------------------------------------------

\* the loop ended on a peer EOF, a failed read, or an exception of data_received
LeftByClose(r) == r.exitBy \in {"eof", "read_error", "fault"}

\* C1: once a session has left CONNECTED by a peer EOF, a decode failure or an
\* exception while dispatching, exactly one connection-lost event has been
\* emitted for it, its writer is closed, and nothing more happens on it: no
\* step changes a session whose writer is closed (no read, no write, no event).
C1_ExactlyOneDisconnect ==
    [][\A s \in Sessions :
         /\ sess[s].closed => sess'[s] = sess[s]
         /\ sess'[s].lost <= 1
         /\ LeftByClose(sess'[s]) =>
              sess'[s].lost = 1 /\ sess'[s].closed /\ sess'[s].pc = "done"]_vars

\* a peer declared three elements and sent one: the session is closed with
\* one event
C1_Witness ==
    \E s \in Sessions :
        /\ sess[s].chunk = TruncFrame /\ sess[s].exitBy = "fault"
        /\ sess[s].lost = 1 /\ sess[s].closed /\ sess[s].pc = "done"

\* C2: an exception raised while decoding or dispatching a chunk in one
\* session ends only that session: it does not leave connect(), the server
\* keeps serving, and no other session's state changes in that step.
C2_FaultIsolated ==
    [][\A s \in Sessions :
         (sess[s].exitBy = "none" /\ sess'[s].exitBy = "fault") =>
            /\ ~sess'[s].raised
            /\ server = "serving" /\ server' = "serving"
            /\ \A t \in Sessions \ {s} : sess'[t] = sess[t]]_vars

\* one session has ended on a fault while another, already answered, is
\* connected and reading
C2_Witness ==
    \E s, t \in Sessions :
        /\ s # t /\ sess[s].exitBy = "fault" /\ ~sess[s].raised
        /\ sess[t].pc = "read" /\ sess[t].chunk = GetInline
        /\ sess[t].reply = unknown_command(<<"g", "e", "t">>, <<<<"k">>>>)
        /\ ~sess[t].closed /\ server = "serving"

\* C3: a session task cancelled in a read or a write ends without raising
\* past connect() and with its writer closed.
C3_CancelReleasesSocket ==
    \A s \in Sessions :
        sess[s].exitBy = "cancel" => ~sess[s].raised /\ sess[s].closed

\* C4: a chunk that fails to decode is answered with an error response, and
\* no exception leaves process_data.
C4_DecodeFailureAnswered ==
    \A s \in Sessions :
        (sess[s].chunk # <<>> /\ ~parse_command(sess[s].chunk).ok) =>
            sess[s].exitBy # "fault" /\ startswith(sess[s].reply, "-")

TypeBytes == {"+", "-", ":", "$", "*"}

\* a response that starts with a type byte and ends with CR LF
ProtocolCorrect(b) ==
    /\ Len(b) >= 3
    /\ b[1] \in TypeBytes
    /\ b[Len(b) - 1] = CR /\ b[Len(b)] = LF

\* C5: a chunk that decodes to a command is answered, before the next read,
\* with one response that starts with a type byte and ends with CR LF.
C5_ParseableAnswered ==
    \A s \in Sessions :
        (sess[s].chunk # <<>> /\ parse_command(sess[s].chunk).ok) =>
            ProtocolCorrect(sess[s].reply)

\* b is a beginning of f, and not all of it
ProperPrefix(b, f) == Len(b) < Len(f) /\ b = SubSeq(f, 1, Len(b))

\* the valid frames whose splits are looked at
Frames == {PingFrame, FullFrame}

\* C6: the first part of a valid multi-bulk frame, arriving as a chunk of its
\* own, is buffered: it is answered with nothing and does not end the session.
C6_PartialFrameBuffered ==
    \A s \in Sessions :
        (\E f \in Frames : sess[s].chunk # <<>> /\ ProperPrefix(sess[s].chunk, f)) =>
            sess[s].reply = <<>> /\ ~LeftByClose(sess[s])

\* C7: a session has at most one response written and not drained, and none
\* while it reads.
C7_OneInFlight ==
    \A s \in Sessions :
        /\ sess[s].pending <= 1
        /\ sess[s].pc = "read" => sess[s].pending = 0

\* the reply to an unknown command was written and drained, and the session
\* reads again
C7_Witness ==
    \E s \in Sessions :
        /\ sess[s].pc = "read" /\ sess[s].chunk = GetInline
        /\ startswith(sess[s].reply, "-")
        /\ sess[s].pending = 0 /\ ~sess[s].broken

\* C8: after a write that failed at the socket the session is closed and
\* reads no more.
C8_WriteFailureCloses ==
    \A s \in Sessions :
        sess[s].broken => sess[s].pc = "done" /\ sess[s].closed

\* C9: once stop() has returned no new session is started, and the sessions
\* connected when it was called are left as they are by it.
C9_StopStopsAccepting ==
    [][/\ (~stopped /\ stopped') => sess' = sess
       /\ stopped => \A s \in Sessions : sess[s].pc = "idle" => sess'[s].pc = "idle"]_vars

\* C10: decoding the multi-bulk encoding of a command gives the command back.
C10_RoundTrip == step = "decoded" => decoded = Some(cmd)

\* the elements of frame f that belong to its declared count
Declared(f) == SubSeq(f.elems, 1, IF f.count.n < Len(f.elems) THEN f.count.n ELSE Len(f.elems))

\* fewer elements than declared, or one of them with a wrong prefix, a wrong
\* length or a payload that is not text
Malformed(f) ==
    \/ Len(f.elems) < f.count.n
    \/ \E i \in 1..Len(Declared(f)) :
           Declared(f)[i].fault \in {"prefix", "longer", "shorter", "utf8"}

\* C11: of a frame that starts with * and declares N >= 1 elements the decoder
\* makes no command when fewer than N elements are there, or when one of the
\* N has a length line that does not start with $, a declared length that is
\* not the length of its payload, or a payload that is not UTF-8; when it makes
\* a command none of these is the case, and the command is the N payloads.
C11_MalformedRejected ==
    (step = "decoded" /\ cmd.count.kind = "good") =>
        /\ Malformed(cmd) => decoded = None
        /\ decoded.ok =>
              /\ ~Malformed(cmd)
              /\ decoded.list = [i \in 1..cmd.count.n |-> PayloadOf(cmd.elems[i])]

\* two elements declared, the second one byte shorter than its length line
\* says: no command
C11_Witness ==
    /\ step = "decoded" /\ cmd.count.kind = "good" /\ cmd.count.n = 2
    /\ Len(cmd.elems) = 2 /\ cmd.elems[1].fault = "none" /\ cmd.elems[2].fault = "longer"
    /\ decoded = None

AnyAuthCmds ==
    {<<v.sent>> \o Tail(c) : v \in {w \in CaseNames : w.name = <<"a", "u", "t", "h">>},
                             c \in AuthCmds}
        \cup AuthCmds

\* the chunks each command is sent as
SentAs == [c \in CmdSet \cup AnyAuthCmds |-> Encodings(c)]

\* sub occurs in b
Contains(b, sub) ==
    \E i \in 0..(Len(b) - Len(sub)) : SubSeq(b, i + 1, i + Len(sub)) = sub

\* the command did not end the session: no exception left process_data, and
\* unless the peer, the socket or a cancellation ended it since, the
\* session is open and writing its reply or reading
StaysConnected(r) ==
    /\ r.exitBy # "fault"
    /\ r.exitBy = "none" => r.pc \in {"drain", "read"} /\ ~r.closed

\* C13: whatever the case of the letters of a command name, the handler
\* looked up is the one of the lower-case name (the same table entry, or the
\* same fallback when the table has none), and the handler is given the
\* arguments as they were sent.
C13_CaseInsensitiveDispatch ==
    \A s \in Sessions : \A v \in CaseNames : \A a \in CaseArgs :
        sess[s].chunk \in SentAs[<<v.sent>> \o a] =>
            /\ sess[s].handler = [known |-> v.name \in commands, command |-> v.name]
            /\ sess[s].args = a

\* PiNg Ab was read: the ping handler, with Ab
C13_Witness ==
    \E s \in Sessions :
        /\ sess[s].chunk = format_array(StrList(<<<<"P", "i", "N", "g">>, <<"A", "b">>>>))
        /\ sess[s].handler = [known |-> TRUE, command |-> <<"p", "i", "n", "g">>]
        /\ sess[s].args = <<<<"A", "b">>>>
        /\ sess[s].pc = "read"

\* the names of CaseNames that the table does not hold
UnknownNames == {v \in CaseNames : v.name \notin commands}

\* C14: a command whose lower-cased name is not in the table is answered with
\* one error response that holds the name and every argument, and the session
\* goes on to read.
C14_UnknownCommandAnswered ==
    \A s \in Sessions : \A v \in UnknownNames : \A a \in CaseArgs :
        sess[s].chunk \in SentAs[<<v.sent>> \o a] =>
            /\ startswith(sess[s].reply, "-")
            /\ SubSeq(sess[s].reply, Len(sess[s].reply) - 1, Len(sess[s].reply)) = CRLF
            /\ Contains(sess[s].reply, v.name)
            /\ \A i \in 1..Len(a) : Contains(sess[s].reply, a[i])
            /\ sess[s].pending <= 1
            /\ StaysConnected(sess[s])

\* FOOBAR x y Z was answered and the session reads again
C14_Witness ==
    \E s \in Sessions :
        /\ sess[s].chunk = Inline(<<FOOBAR, <<"x">>, <<"y">>, <<"Z">>>>)
        /\ Contains(sess[s].reply, <<"f", "o", "o", "b", "a", "r">>)
        /\ Contains(sess[s].reply, <<"x", SP, "y", SP, "Z">>)
        /\ sess[s].pc = "read" /\ ~sess[s].closed /\ sess[s].pending = 0

\* the bytes of b[lo..hi] as one string
RECURSIVE FlatOf(_, _, _)
FlatOf(b, lo, hi) ==
    IF lo > hi THEN ""
    ELSE IF lo = hi THEN b[lo]
    ELSE LET mid == (lo + hi) \div 2
         IN  FlatOf(b, lo, mid) \o FlatOf(b, mid + 1, hi)

Flat(b) == FlatOf(b, 1, Len(b))

ReplyTo(c) ==
    LET out == process_data(format_array(StrList(c)))
    IN  IF out.sends = <<>> THEN <<>> ELSE Head(out.sends).data

\* C16: the reply to AUTH with one or with two arguments is the same bytes
\* whatever the username and password are, the empty string included.
C16_AuthReplyIndependent ==
    \A s \in Sessions : \A c, d \in AuthCmds :
        (sess[s].chunk \in SentAs[c] /\ Len(c) = Len(d) /\ Len(c) \in {2, 3}) =>
            sess[s].reply = ReplyTo(d)

\* C17: no AUTH command is answered with anything but an error: its reply, if
\* there is one, starts with - .
C17_NeverAuthenticated ==
    \A s \in Sessions : \A c \in AnyAuthCmds :
        sess[s].chunk \in SentAs[c] =>
            sess[s].reply = <<>> \/ startswith(sess[s].reply, "-")

\* AUTH x Y was answered with an error and the session reads again
C17_Witness ==
    \E s \in Sessions :
        /\ sess[s].chunk = Inline(<<AUTH, <<"x">>, <<"Y">>>>)
        /\ sess[s].authlog = <<[username |-> User(<<"x">>), password |-> <<"Y">>]>>
        /\ startswith(sess[s].reply, "-")
        /\ sess[s].pc = "read"

\* C18: every AUTH command, whatever the number of its arguments, is logged
\* once, with the username and the password as they were sent (no username
\* when there is one argument, neither when there is none).
C18_AuthAttemptLogged ==
    \A s \in Sessions : \A c \in AuthCmds :
        sess[s].chunk \in SentAs[c] =>
            LET a == Tail(c)
            IN  /\ Len(sess[s].authlog) = 1
                /\ Len(a) = 1 => sess[s].authlog[1] = [username |-> NoUser, password |-> a[1]]
                /\ Len(a) = 2 => sess[s].authlog[1] = [username |-> User(a[1]), password |-> a[2]]

\* C19: PING alone is answered +PONG CRLF, PING x with the bulk string of x:
\* $, the number of bytes of x, CRLF, x, CRLF.
C19_PingEcho ==
    \A s \in Sessions : \A c \in PingCmds :
        sess[s].chunk \in SentAs[c] =>
            sess[s].reply =
                IF Len(c) = 1 THEN <<"+", "P", "O", "N", "G", CR, LF>>
                ELSE <<"$">> \o IntStr(Len(c[2])) \o CRLF \o c[2] \o CRLF

\* C20: SELECT n is answered +OK when n is an index in 0..15, with the
\* out-of-range error when n is an integer outside 0..15, with the
\* not-an-integer error when n is no integer (the replies of handle_select),
\* and the session goes on.
C20_SelectAnswered ==
    \A s \in Sessions : \A n \in SelectIn \cup SelectOut \cup SelectNaN :
        sess[s].chunk \in SentAs[<<SELECT, n>>] =>
            /\ n \in SelectIn => Flat(sess[s].reply) = "+OK\r\n"
            /\ n \in SelectOut => Flat(sess[s].reply) = "-ERR DB index is out of range\r\n"
            /\ n \in SelectNaN =>
                  Flat(sess[s].reply) = "-ERR value is not an integer or out of range\r\n"
            /\ StaysConnected(sess[s])

\* C21: CLIENT is answered +OK when it has no argument, when its first
\* argument is not setname in any case, and when it is setname followed by an
\* even number of tokens; it is answered with the wrong-number-of-arguments
\* error of client only when it is setname followed by an odd number of tokens.
C21_ClientReplies ==
    \A s \in Sessions : \A c \in ClientCmds :
        sess[s].chunk \in SentAs[c] =>
            Flat(sess[s].reply) =
                IF Len(c) >= 2 /\ c[2] \in SetnameSpellings /\ (Len(c) - 2) % 2 = 1
                THEN "-ERR wrong number of arguments for 'client' command\r\n"
                ELSE "+OK\r\n"

\* the bytes UTF-8 needs for a text, and a number below 100 in decimal
Utf8Bytes(t) == Len(t) + Cardinality({i \in 1..Len(t) : t[i] = EAcute})
Decimal(n) ==
    IF n < 10 THEN <<Digits[n + 1]>>
    ELSE <<Digits[(n \div 10) + 1], Digits[(n % 10) + 1]>>

\* C22: the scalar encoders are exact for every input: a simple string s is
\* '+' s CRLF, an error of kind k and message m is '-' k ' ' m CRLF, an
\* integer i is ':' i CRLF with i in decimal (negative ones with their sign),
\* a bulk string s is '$' n CRLF s CRLF with n the number of UTF-8 bytes of s
\* (0 for the empty text), and the null bulk string is '$-1' CRLF.
C22_ScalarEncoders ==
    step = "formatted" =>
        /\ cmd.fn = "simple_string" => wire = <<"+">> \o cmd.v.s \o <<CR, LF>>
        /\ cmd.fn = "error" =>
               wire = <<"-">> \o cmd.kind \o <<SP>> \o cmd.v.s \o <<CR, LF>>
        /\ cmd.fn = "integer" =>
               \E c \in IntCases :
                   c.n = cmd.v.n /\ wire = <<":">> \o c.text \o <<CR, LF>>
        /\ (cmd.fn = "bulk_string" /\ cmd.v.t = "str") =>
               wire = <<"$">> \o Decimal(Utf8Bytes(cmd.v.s)) \o <<CR, LF>>
                          \o cmd.v.s \o <<CR, LF>>
        /\ (cmd.fn = "bulk_string" /\ cmd.v.t = "none") =>
               wire = <<"$", "-", "1", CR, LF>>

\* a bulk string whose text takes more bytes than it has characters
C22_Witness ==
    /\ step = "formatted" /\ cmd.fn = "bulk_string"
    /\ cmd.v = StrItem(<<EAcute, "a">>)
    /\ wire = <<"$", "3", CR, LF, EAcute, "a", CR, LF>>

\* the encoding of a value by the rule of its own variant: a text is a bulk
\* string, an integer an integer, None the null bulk string, and a list an
\* array of its elements
RECURSIVE ByVariant(_)
RECURSIVE EachByVariant(_)
ByVariant(v) ==
    CASE v.t = "str" -> format_bulk_string(v.s)
      [] v.t = "int" -> format_integer(v.n)
      [] v.t = "none" -> <<"$", "-", "1", CR, LF>>
      [] OTHER -> <<"*">> \o Decimal(Len(v.l)) \o <<CR, LF>> \o EachByVariant(v.l)

EachByVariant(l) ==
    IF l = <<>> THEN <<>> ELSE ByVariant(Head(l)) \o EachByVariant(Tail(l))

\* C23: the null array is encoded '*-1' CRLF, and an array of k elements is
\* '*' k CRLF followed by the encoding of each element in order, each by the
\* rule of its own variant, an element that is itself an array included.
C23_ArrayRecursive ==
    (step = "formatted" /\ cmd.fn = "array") =>
        wire = IF cmd.v.t = "none" THEN <<"*", "-", "1", CR, LF>> ELSE ByVariant(cmd.v)

\* C24: in a multi-bulk frame of N >= 1 elements an element $-1 is decoded as
\* a null element and is no decode failure: when the N elements are there and
\* each is well formed or $-1, a command of N elements is made, and every
\* element that is not $-1 is decoded to its payload.
C24_NullElementDecoded ==
    (/\ step = "decoded" /\ cmd.count.kind = "good"
     /\ cmd.count.n <= Len(cmd.elems)
     /\ \A i \in 1..cmd.count.n : cmd.elems[i].fault \in {"none", "null"}
     /\ \E i \in 1..cmd.count.n : cmd.elems[i].fault = "null") =>
        /\ decoded.ok
        /\ Len(decoded.list) = cmd.count.n
        /\ \A i \in 1..cmd.count.n :
               cmd.elems[i].fault = "none" => decoded.list[i] = PayloadOf(cmd.elems[i])

\* the words a multi-bulk frame of c falls into when it is read as a line:
\* the count line, then for each text its length line and the text
WordsOfBulk(c) ==
    <<<<"*">> \o Decimal(Len(c))>>
        \o [i \in 1..(2 * Len(c)) |->
               IF i % 2 = 1 THEN <<"$">> \o Decimal(Len(c[(i + 1) \div 2]))
               ELSE c[i \div 2]]

\* one CRLF-terminated line
OneLine(b) ==
    /\ Len(b) >= 2 /\ b[Len(b) - 1] = CR /\ b[Len(b)] = LF
    /\ \A i \in 1..(Len(b) - 2) : b[i] \notin {CR, LF}

\* C25: a chunk that holds two commands leads to one dispatch and at most one
\* response. When the first command is inline, the bytes of the second become
\* further arguments of the first; when the first is multi-bulk, everything
\* after its last element is dropped. The second command is never dispatched.
C25_OneDispatchPerChunk ==
    \A s \in Sessions : \A p \in PipeCases :
        (sess[s].chunk = PipeBytes(p) /\ sess[s].pc \in {"read", "drain"}) =>
            /\ sess[s].handler =
                   [known |-> p.c1[1] = PING, command |-> lower(p.c1[1])]
            /\ sess[s].args =
                   Tail(p.c1) \o (IF p.f1 = "bulk" THEN <<>>
                                  ELSE IF p.f2 = "inline" THEN p.c2
                                  ELSE WordsOfBulk(p.c2))
            /\ Len(process_data(sess[s].chunk).sends) <= 1
            /\ OneLine(sess[s].reply)
            /\ p.c1[1] = PING => Flat(sess[s].reply) = "+PONG\r\n"

\* PING CRLF PING CRLF was read: one ping with the argument PING, one +PONG
C25_Witness ==
    \E s \in Sessions :
        /\ sess[s].chunk = PING \o CRLF \o PING \o CRLF
        /\ sess[s].handler = [known |-> TRUE, command |-> <<"p", "i", "n", "g">>]
        /\ sess[s].args = <<PING>>
        /\ Flat(sess[s].reply) = "+PONG\r\n"

\* C26: whatever the bytes, parse_command returns None or a list of at least
\* one element, each element text; it never returns the empty list, so
\* process_data never finds command_list[0] missing.
C26_NeverEmptyList ==
    step = "decoded" =>
        \/ decoded = None
        \/ /\ decoded.ok
           /\ Len(decoded.list) >= 1
           /\ \A i \in 1..Len(decoded.list) :
                  \A j \in 1..Len(decoded.list[i]) : decoded.list[i][j] # BadByte

\* a frame that declares no element was decoded: None, not the empty list
C26_Witness ==
    step = "decoded" /\ wire = <<"*", "0", CR, LF>> /\ decoded = None

\* C27: when the peer closes in the end and writes drain, every accepted
\* session ends with its socket closed, unless its task is cancelled first
\* (no read of a cancelled task returns); and whatever the chunk, a session
\* that waits for its write goes on to read again or ends.
C27_EventuallyClosed ==
    \A s \in Sessions :
        /\ (sess[s].pc \in {"read", "drain"}) ~>
               (sess[s].pc = "done" /\ (sess[s].closed \/ sess[s].exitBy = "cancel"))
        /\ (sess[s].pc = "drain") ~> (sess[s].pc \in {"read", "done"})

\* a session answered a chunk, its write drained, and the peer's close ended
\* it with the socket closed
C27_Witness ==
    \E s \in Sessions :
        /\ sess[s].pc = "done" /\ sess[s].exitBy = "eof" /\ sess[s].closed
        /\ sess[s].reply # <<>> /\ sess[s].pending = 0 /\ ~sess[s].broken

====
